---- MODULE Spec2Model ----
(***************************************************************************)
(* Model of scripts/transformation_matrix/get_calibration_data.py:         *)
(* the rigid-transform inverter invert_T, the rotation decomposer          *)
(* rpy_from_R, the converter xyz_rpy_from_T and the orchestrator get_info. *)
(*                                                                         *)
(* Numbers.  A float is kept exactly, as a pair <<n, d>>:                  *)
(*   - a matrix entry or a translation is the fraction n/d in lowest       *)
(*     terms, d > 0;                                                       *)
(*   - an angle is the value of arctan2(n, d), kept as the reduced         *)
(*     integer direction <<n, d>> = <<sin-part, cos-part>>, which names    *)
(*     one angle of (-180, 180] degrees.                                   *)
(* Both read <<0, 1>> as 0.0.  The arithmetic is exact, so the model       *)
(* speaks for the floats up to rounding and does not tell -0.0 from 0.0.   *)
(***************************************************************************)
EXTENDS Integers, Sequences, FiniteSets, TLC

VARIABLES
    pc,        \* get_info: the statement about to run
    file,      \* get_info: the content of the input file (a JSON object, as key/value pairs in order)
    items,     \* get_info: the loaded mapping (line 129)
    idx,       \* get_info: position of the for loop in items (line 131)
    xyzrpy,    \* get_info: the accumulated records (line 124)
    inOpen,    \* the input file handle is open
    outOpen,   \* the output file handle is open
    artifact,  \* content of calibration_AudiQ8_xyzrpy.json
    prior,     \* content of calibration_AudiQ8_xyzrpy.json before the run
    exc,       \* the exception that ended get_info, "" when none
    fn,        \* function harness: the function applied last
    arg,       \* function harness: the input drawn
    out        \* function harness: the value returned last

vars == <<pc, file, items, idx, xyzrpy, inOpen, outOpen, artifact, prior, exc, fn, arg, out>>
scriptVars == <<pc, file, items, idx, xyzrpy, inOpen, outOpen, artifact, prior, exc>>
harnessVars == <<fn, arg, out>>

----------------------------------------------------------------------------
(* Bounds *)

\* translations of the function harness range over -MaxT..MaxT per axis
MaxT == 1
\* number of sensor keys an input file may hold (besides "state")
MaxSensors == 2

----------------------------------------------------------------------------
(* Exact arithmetic standing for the float operations of the code *)

Abs(a) == IF a < 0 THEN -a ELSE a

RECURSIVE Gcd(_, _)
Gcd(a, b) == IF b = 0 THEN a ELSE Gcd(b, a % b)

\* the fraction n/d in lowest terms with a positive denominator
Frac(n, d) ==
    LET g == Gcd(Abs(n), Abs(d))
        s == IF d < 0 THEN -1 ELSE 1
    IN  <<(s * n) \div g, (s * d) \div g>>

Zero == <<0, 1>>
One == <<1, 1>>

FAdd(a, b) == Frac(a[1] * b[2] + b[1] * a[2], a[2] * b[2])
FMul(a, b) == Frac(a[1] * b[1], a[2] * b[2])
FNeg(a) == <<-a[1], a[2]>>
FGt(a, b) == a[1] * b[2] > b[1] * a[2]

\* integer square root; defined on perfect squares only
RECURSIVE SqrtFrom(_, _)
SqrtFrom(k, s) == IF s * s >= k THEN s ELSE SqrtFrom(k, s + 1)
ISqrt(k) == LET r == SqrtFrom(k, 0) IN CHOOSE s \in {r} : s * s = k

\* np.sqrt on a fraction whose numerator and denominator are perfect squares
sqrt(a) == <<ISqrt(a[1]), ISqrt(a[2])>>

\* np.arctan2(y, x): the angle of the direction (x, y); arctan2(0, 0) is 0.0
arctan2(y, x) ==
    LET yy == y[1] * x[2]
        xx == x[1] * y[2]
        g  == Gcd(Abs(yy), Abs(xx))
    IN  IF g = 0 THEN Zero ELSE <<yy \div g, xx \div g>>

\* the gimbal-lock threshold 1e-6 is 1 / GimbalDen
GimbalDen == 1000000
Threshold == <<1, GimbalDen>>

----------------------------------------------------------------------------
(* numpy arrays: a matrix is a sequence of rows, a vector a sequence *)

Min(a, b) == IF a < b THEN a ELSE b

RECURSIVE Dot(_, _)
Dot(u, v) == IF Len(u) = 0 THEN Zero
             ELSE FAdd(FMul(Head(u), Head(v)), Dot(Tail(u), Tail(v)))

\* A.T
Transpose(A) == [j \in 1..Len(A[1]) |-> [i \in 1..Len(A) |-> A[i][j]]]
\* A @ v
MatVec(A, v) == [i \in 1..Len(A) |-> Dot(A[i], v)]
\* A @ B
MatMul(A, B) == [i \in 1..Len(A) |-> [j \in 1..Len(B[1]) |-> Dot(A[i], Transpose(B)[j])]]
\* -A
MatNeg(A) == [i \in 1..Len(A) |-> [j \in 1..Len(A[i]) |-> FNeg(A[i][j])]]

\* np.eye(n)
eye(n) == [i \in 1..n |-> [j \in 1..n |-> IF i = j THEN One ELSE Zero]]

\* T[:3,:3]: a slice never fails, it keeps what is there
Block3(T) == [i \in 1..Min(3, Len(T)) |-> SubSeq(T[i], 1, Min(3, Len(T[i])))]
\* T[:3, 3]: the index 3 needs a fourth column
Column3(T) == [i \in 1..Min(3, Len(T)) |-> T[i][4]]
NCols(T) == Len(T[1])

\* the value numpy stores for  target[:3,:3] = A : A broadcast to 3 x 3
\* (defined when each dimension of A is 1 or 3)
Broadcast33(A) ==
    [i \in 1..3 |-> [j \in 1..3 |->
        A[IF Len(A) = 1 THEN 1 ELSE i][IF Len(A[1]) = 1 THEN 1 ELSE j]]]
Broadcastable33(A) == Len(A) \in {1, 3} /\ Len(A[1]) \in {1, 3}

\* a returned value, or the exception raised instead
Return(v) == [ok |-> TRUE, val |-> v, exc |-> ""]
Raise(e) == [ok |-> FALSE, val |-> <<>>, exc |-> e]

----------------------------------------------------------------------------
(* The functions of the script *)

get_empty_dict ==
    [x |-> Zero, y |-> Zero, z |-> Zero, roll |-> Zero, pitch |-> Zero, yaw |-> Zero]

\* line 40: the rotation block of the inverse
InvRotation(R) == Transpose(R)
\* slip: the translation of the inverse taken as -R @ t
InvTranslation_noTranspose(R, t) == MatVec(MatNeg(R), t)

\* line 41: the translation of the inverse, -R.T @ t
InvTranslation(R, t) == MatVec(MatNeg(Transpose(R)), t)

invert_T(T) ==
    IF NCols(T) < 4 THEN Raise("IndexError")                   \* t = T[:3, 3]
    ELSE
    LET R == Block3(T)
        t == Column3(T)
    IN  IF ~Broadcastable33(InvRotation(R)) THEN Raise("ValueError")
        ELSE Return([i \in 1..4 |-> [j \in 1..4 |->
                IF i <= 3 /\ j <= 3 THEN Broadcast33(InvRotation(R))[i][j]
                ELSE IF i <= 3 THEN InvTranslation(R, t)[i]
                ELSE eye(4)[i][j]]])

\* slip: the arguments of arctan2 for roll the other way round
RegularBranch_swapped(R, cos_beta) ==
    LET yaw   == arctan2(R[3][2], R[3][3])
        pitch == arctan2(FNeg(R[3][1]), cos_beta)
        roll  == arctan2(R[1][1], R[2][1])
    IN  <<roll, pitch, yaw>>

\* the two branches of rpy_from_R, as <<roll, pitch, yaw>>
RegularBranch(R, cos_beta) ==
    LET yaw   == arctan2(R[3][2], R[3][3])
        pitch == arctan2(FNeg(R[3][1]), cos_beta)
        roll  == arctan2(R[2][1], R[1][1])
    IN  <<roll, pitch, yaw>>

\* slip: the sign of R[1,2] lost
GimbalBranch_sign(R, cos_beta) ==
    LET roll  == arctan2(R[2][3], R[1][3])
        pitch == arctan2(FNeg(R[3][1]), cos_beta)
        yaw   == Zero
    IN  <<roll, pitch, yaw>>

GimbalBranch(R, cos_beta) ==
    LET roll  == arctan2(FNeg(R[2][3]), R[1][3])
        pitch == arctan2(FNeg(R[3][1]), cos_beta)
        yaw   == Zero
    IN  <<roll, pitch, yaw>>

rpy_from_R(R) ==
    IF Len(R) < 3 THEN Raise("IndexError")                     \* R[1,0], R[2,*]
    ELSE
    LET cos_beta == sqrt(FAdd(FMul(R[1][1], R[1][1]), FMul(R[2][1], R[2][1])))
    IN  IF FGt(cos_beta, Threshold)
        THEN Return(RegularBranch(R, cos_beta))
        ELSE Return(GimbalBranch(R, cos_beta))

xyz_rpy_from_T(v_T_sensor) ==
    IF NCols(v_T_sensor) < 4 THEN Raise("IndexError")          \* t = v_T_sensor[:3, 3]
    ELSE
    LET t   == Column3(v_T_sensor)
        R   == Block3(v_T_sensor)
        rpy == rpy_from_R(R)
    IN  IF ~rpy.ok THEN rpy
        ELSE Return([get_empty_dict EXCEPT
                !.x = t[1], !.y = t[2], !.z = t[3],
                !.roll = rpy.val[1], !.pitch = rpy.val[2], !.yaw = rpy.val[3]])

----------------------------------------------------------------------------
(* Function harness: draws a rigid transform and applies the pure functions *)

\* the angles whose sine and cosine are fractions: the multiples of 90 degrees
\* and the 3-4-5 angles (about 36.87 and 53.13 degrees off the axes)
Angles ==
    { <<0, 1>>, <<1, 0>>, <<0, -1>>, <<-1, 0>>,
      <<3, 4>>, <<4, 3>>, <<4, -3>>, <<3, -4>>,
      <<-3, 4>>, <<-4, 3>>, <<-4, -3>>, <<-3, -4>> }
Deg90 == <<1, 0>>

Hyp(a) == ISqrt(a[1] * a[1] + a[2] * a[2])
Sin(a) == Frac(a[1], Hyp(a))
Cos(a) == Frac(a[2], Hyp(a))

\* elementary rotations about the fixed X, Y and Z axes
RotX(a) == << <<One, Zero, Zero>>,
              <<Zero, Cos(a), FNeg(Sin(a))>>,
              <<Zero, Sin(a), Cos(a)>> >>
RotY(a) == << <<Cos(a), Zero, Sin(a)>>,
              <<Zero, One, Zero>>,
              <<FNeg(Sin(a)), Zero, Cos(a)>> >>
RotZ(a) == << <<Cos(a), FNeg(Sin(a)), Zero>>,
              <<Sin(a), Cos(a), Zero>>,
              <<Zero, Zero, One>> >>

\* extrinsic X-Y-Z: roll about X, then pitch about Y, then yaw about Z
\* (the product is taken on evaluated factors, so that no factor is evaluated twice)
Product(A, B) == CHOOSE M \in { MatMul(a, b) : a \in {A}, b \in {B} } : TRUE
FromRPY(roll, pitch, yaw) == Product(RotZ(yaw), Product(RotY(pitch), RotX(roll)))

\* the rigid transform [[R, t], [0, 1]]
Rigid(R, t) ==
    [i \in 1..4 |-> [j \in 1..4 |->
        IF i <= 3 /\ j <= 3 THEN R[i][j]
        ELSE IF i <= 3 THEN t[i]
        ELSE IF j = 4 THEN One ELSE Zero]]

Translations == { <<Frac(a, 1), Frac(b, 1), Frac(c, 1)>> : a, b, c \in -MaxT..MaxT }

ArgR(a) == FromRPY(a.roll, a.pitch, a.yaw)
ArgT(a) == CHOOSE T \in { Rigid(R, a.t) : R \in {ArgR(a)} } : TRUE

NoArg == [roll |-> Zero, pitch |-> Zero, yaw |-> Zero, t |-> <<Zero, Zero, Zero>>]

HarnessIdle == fn = "none" /\ arg = NoArg /\ out = Return(<<>>)

\* the inputs drawn: every rotation of Angles without translation, and the
\* rotations of InvAngles (all 24 axis-aligned ones among them) with every
\* translation
InvAngles == { <<0, 1>>, <<1, 0>>, <<0, -1>>, <<-1, 0>>, <<3, 4>> }
HarnessInputs ==
    [roll : Angles, pitch : Angles, yaw : Angles, t : {<<Zero, Zero, Zero>>}]
    \cup [roll : InvAngles, pitch : InvAngles, yaw : InvAngles, t : Translations]

HarnessInit ==
    /\ fn = "none"
    /\ out = Return(<<>>)
    /\ arg \in HarnessInputs

CallInvert ==
    /\ fn = "none"
    /\ fn' = "invert_T"
    /\ \E T \in {ArgT(arg)} : out' = invert_T(T)
    /\ UNCHANGED arg

CallInvertAgain ==
    /\ fn = "invert_T"
    /\ fn' = "invert_T.invert_T"
    /\ \E T \in {out.val} : out' = invert_T(T)
    /\ UNCHANGED arg

CallRpy ==
    /\ fn = "none"
    /\ fn' = "rpy_from_R"
    /\ \E R \in {ArgR(arg)} : out' = rpy_from_R(R)
    /\ UNCHANGED arg

CallXyzRpy ==
    /\ fn = "none"
    /\ fn' = "xyz_rpy_from_T"
    /\ \E T \in {ArgT(arg)} : out' = xyz_rpy_from_T(T)
    /\ UNCHANGED arg

ScriptIdle ==
    /\ pc = "idle" /\ file = <<>> /\ items = <<>> /\ idx = 0 /\ xyzrpy = <<>>
    /\ inOpen = FALSE /\ outOpen = FALSE /\ artifact = <<>> /\ prior = <<>> /\ exc = ""

FnInit == HarnessInit /\ ScriptIdle
FnNext ==
    \/ CallInvert /\ UNCHANGED scriptVars
    \/ CallInvertAgain /\ UNCHANGED scriptVars
    \/ CallRpy /\ UNCHANGED scriptVars
    \/ CallXyzRpy /\ UNCHANGED scriptVars
FnSpec == FnInit /\ [][FnNext]_vars

----------------------------------------------------------------------------
(* get_info: the input file *)

\* A JSON object is a sequence of <<key, value>> pairs with distinct keys, in
\* the order json.load keeps; a value that is itself an object with fixed
\* keys is a function on strings.

\* the sensor keys an input may use; MaxSensors of them are in play
KeyList == <<"cam0", "front_cam0", "lidar", "radar">>
SensorKeys == { KeyList[i] : i \in 1..Min(MaxSensors, Len(KeyList)) }

\* 4 x 4 rigid transforms an entry may carry
Int3(a, b, c) == <<Frac(a, 1), Frac(b, 1), Frac(c, 1)>>
PureTranslation == Rigid(eye(3), Int3(1, 2, 3))
Rotated == Rigid(FromRPY(<<3, 4>>, <<0, 1>>, <<1, 0>>), Int3(1, 2, 3))

\* arrays that are not 4 x 4
Mat3x3 == eye(3)
Mat2x4 == << <<One, Zero, Zero, One>>, <<Zero, One, Zero, One>> >>
Mat1x4 == << <<One, Zero, Zero, One>> >>

\* {"extrinsics": {label: M}}
Extrinsics(label, M) == [extrinsics |-> << <<label, M>> >>]
\* an entry without 'extrinsics', and one whose 'extrinsics' is {}
NoExtrinsics == [intrinsics |-> <<>>]
EmptyExtrinsics == [extrinsics |-> <<>>]
\* the value under "state": not a sensor entry
StateValue == [calibrated |-> <<>>]

ValidValues ==
    { Extrinsics("cTv", PureTranslation), Extrinsics("vTc", PureTranslation),
      Extrinsics("cTv", Rotated), Extrinsics("vTc_front", Rotated) }
MalformedValues ==
    { NoExtrinsics, EmptyExtrinsics,
      Extrinsics("cTv", Mat3x3), Extrinsics("cTv", Mat2x4),
      Extrinsics("cTv", Mat1x4), Extrinsics("vTc", Mat1x4) }
SensorValues == ValidValues \cup MalformedValues

KeysOf(f) == { f[i][1] : i \in 1..Len(f) }
Entries == (SensorKeys \X SensorValues) \cup {<<"state", StateValue>>}
\* the objects of n entries over the sensor keys and "state"
RECURSIVE FilesOfLen(_)
FilesOfLen(n) ==
    IF n = 0 THEN {<<>>}
    ELSE UNION { { Append(f, e) : e \in { e \in Entries : e[1] \notin KeysOf(f) } }
                 : f \in FilesOfLen(n - 1) }
Files == UNION { FilesOfLen(n) : n \in 0..(MaxSensors + 1) }

\* a report left by an earlier run
OldReport == ("Audi Q8" :> ("vTc_old" :> get_empty_dict))

----------------------------------------------------------------------------
(* get_info *)

\* slip: no key is reserved
IsSensorKey_all(each_key) == TRUE

\* line 132
IsSensorKey(each_key) == each_key # "state"

\* slip: the "cTv" case lost, every label taken as given
Direction_asGiven(transform, each_key) == <<transform \o "_" \o each_key, FALSE>>

\* slip: the comparison made against the other label
Direction_vTc(transform, each_key) ==
    IF transform = "vTc" THEN <<"vTc_" \o each_key, TRUE>>
    ELSE <<transform \o "_" \o each_key, FALSE>>

\* line 135: <<name, v_T_sensor>>
Direction(transform, each_key) ==
    IF transform = "cTv" THEN <<"vTc_" \o each_key, TRUE>>
    ELSE <<transform \o "_" \o each_key, FALSE>>

\* d[k] on the pairs of an object
Lookup(d, k) == d[CHOOSE i \in 1..Len(d) : d[i][1] = k][2]

\* lines 133-141 for one entry: <<name, data>>, or the exception raised
Decompose(each_key, entry) ==
    IF "extrinsics" \notin DOMAIN entry THEN Raise("KeyError")         \* line 133
    ELSE IF Len(entry.extrinsics) = 0 THEN Raise("IndexError")         \* line 133, [0]
    ELSE
    LET transform == entry.extrinsics[1][1]
        nd        == Direction(transform, each_key)
        T0        == Lookup(entry.extrinsics, transform)
        T         == IF nd[2] THEN invert_T(T0) ELSE Return(T0)
    IN  IF ~T.ok THEN T
        ELSE LET data == xyz_rpy_from_T(T.val)
             IN  IF ~data.ok THEN data ELSE Return(<<nd[1], data.val>>)

\* xyzrpy[name] = data
Put(d, name, data) == (name :> data) @@ d

ScriptInit ==
    /\ pc = "open_in"
    /\ file \in Files
    /\ items = <<>>
    /\ idx = 0
    /\ xyzrpy = <<>>
    /\ inOpen = FALSE
    /\ outOpen = FALSE
    /\ prior = OldReport
    /\ artifact = prior
    /\ exc = ""

\* line 128: with open(calibration_file_path) as file
OpenInput ==
    /\ pc = "open_in"
    /\ inOpen' = TRUE
    /\ pc' = "load"
    /\ UNCHANGED <<file, items, idx, xyzrpy, outOpen, artifact, prior, exc>>

\* line 129: items = json.load(file)
Load ==
    /\ pc = "load"
    /\ items' = file
    /\ idx' = 1
    /\ pc' = "loop"
    /\ UNCHANGED <<file, xyzrpy, inOpen, outOpen, artifact, prior, exc>>

\* lines 131-132: the reserved key is passed over
LoopSkip ==
    /\ pc = "loop"
    /\ idx <= Len(items)
    /\ ~IsSensorKey(items[idx][1])
    /\ idx' = idx + 1
    /\ UNCHANGED <<pc, file, items, xyzrpy, inOpen, outOpen, artifact, prior, exc>>

\* lines 131-143: one sensor entry is decomposed and stored
LoopStore ==
    /\ pc = "loop"
    /\ idx <= Len(items)
    /\ IsSensorKey(items[idx][1])
    /\ \E r \in {Decompose(items[idx][1], items[idx][2])} :
        /\ r.ok
        /\ xyzrpy' = Put(xyzrpy, r.val[1], r.val[2])
    /\ idx' = idx + 1
    /\ UNCHANGED <<pc, file, items, inOpen, outOpen, artifact, prior, exc>>

\* slip: the exception of an entry is caught and the loop goes on
LoopRaise_swallow ==
    /\ pc = "loop"
    /\ idx <= Len(items)
    /\ IsSensorKey(items[idx][1])
    /\ \E r \in {Decompose(items[idx][1], items[idx][2])} :
        /\ ~r.ok
        /\ exc' = r.exc
    /\ idx' = idx + 1
    /\ UNCHANGED <<pc, file, items, xyzrpy, inOpen, outOpen, artifact, prior>>

\* lines 131-141: the entry raises; the exception leaves the with block, which
\* closes the input file, and ends get_info
LoopRaise ==
    /\ pc = "loop"
    /\ idx <= Len(items)
    /\ IsSensorKey(items[idx][1])
    /\ \E r \in {Decompose(items[idx][1], items[idx][2])} :
        /\ ~r.ok
        /\ exc' = r.exc
    /\ inOpen' = FALSE
    /\ pc' = "raised"
    /\ UNCHANGED <<file, items, idx, xyzrpy, outOpen, artifact, prior>>

\* slip: the input file is not closed when the loop is left
CloseInput_leak ==
    /\ pc = "loop"
    /\ idx > Len(items)
    /\ pc' = "open_out"
    /\ UNCHANGED <<file, items, idx, xyzrpy, inOpen, outOpen, artifact, prior, exc>>

\* end of the with block of line 128, after the last entry
CloseInput ==
    /\ pc = "loop"
    /\ idx > Len(items)
    /\ inOpen' = FALSE
    /\ pc' = "open_out"
    /\ UNCHANGED <<file, items, idx, xyzrpy, outOpen, artifact, prior, exc>>

\* line 147: open(..., "w") empties the file
OpenOutput ==
    /\ pc = "open_out"
    /\ outOpen' = TRUE
    /\ artifact' = <<>>
    /\ pc' = "dump"
    /\ UNCHANGED <<file, items, idx, xyzrpy, inOpen, prior, exc>>

\* slip: the new records are merged into the report found
Dump_merge ==
    /\ pc = "dump"
    /\ artifact' = ("Audi Q8" :> (xyzrpy @@ prior["Audi Q8"]))
    /\ pc' = "print"
    /\ UNCHANGED <<file, items, idx, xyzrpy, inOpen, outOpen, prior, exc>>

\* line 148: json.dump({"Audi Q8": xyzrpy}, outfile, indent=4)
Dump ==
    /\ pc = "dump"
    /\ artifact' = ("Audi Q8" :> xyzrpy)
    /\ pc' = "print"
    /\ UNCHANGED <<file, items, idx, xyzrpy, inOpen, outOpen, prior, exc>>

\* line 150 and the end of the with block of line 147
CloseOutput ==
    /\ pc = "print"
    /\ outOpen' = FALSE
    /\ pc' = "done"
    /\ UNCHANGED <<file, items, idx, xyzrpy, inOpen, artifact, prior, exc>>

Init == ScriptInit /\ HarnessIdle
Next ==
    \/ OpenInput /\ UNCHANGED harnessVars
    \/ Load /\ UNCHANGED harnessVars
    \/ LoopSkip /\ UNCHANGED harnessVars
    \/ LoopStore /\ UNCHANGED harnessVars
    \/ LoopRaise /\ UNCHANGED harnessVars
    \/ CloseInput /\ UNCHANGED harnessVars
    \/ OpenOutput /\ UNCHANGED harnessVars
    \/ Dump /\ UNCHANGED harnessVars
    \/ CloseOutput /\ UNCHANGED harnessVars
Spec == Init /\ [][Next]_vars

----------------------------------------------------------------------------
(* Claims about get_info, checked under Spec *)

Pose(x, y, z, roll, pitch, yaw) ==
    [x |-> x, y |-> y, z |-> z, roll |-> roll, pitch |-> pitch, yaw |-> yaw]
PoseFields == {"x", "y", "z", "roll", "pitch", "yaw"}

\* the entry the loop has just left behind, when it was a sensor entry
JustStored == pc = "loop" /\ idx > 1 /\ items[idx - 1][1] # "state"
LastKey == items[idx - 1][1]
LastLabel == items[idx - 1][2].extrinsics[1][1]
LastMatrix == items[idx - 1][2].extrinsics[1][2]
Is4x4(M) == Len(M) = 4 /\ \A i \in 1..4 : Len(M[i]) = 4

\* C1: when get_info has stored the record of a sensor entry with the sole
\* label "cTv", the record is named "vTc_<key>" and holds the decomposition of
\* the inverse of the input matrix (for a 4 x 4 rigid input, the matrix X with
\* X @ M = identity); with any other sole label L the record is named
\* "<L>_<key>" and holds the decomposition of the input matrix itself.
C1_DirectionHandling ==
    JustStored /\ Len(items[idx - 1][2].extrinsics) = 1 =>
        \A M \in {LastMatrix} :
            IF LastLabel = "cTv"
            THEN \A X \in {invert_T(M).val} :
                    /\ ("vTc_" \o LastKey) \in DOMAIN xyzrpy
                    /\ xyzrpy["vTc_" \o LastKey] = xyz_rpy_from_T(X).val
                    /\ Is4x4(M) => MatMul(X, M) = eye(4)
            ELSE /\ (LastLabel \o "_" \o LastKey) \in DOMAIN xyzrpy
                 /\ xyzrpy[LastLabel \o "_" \o LastKey] = xyz_rpy_from_T(M).val

\* a run that stored one entry of each direction: an inverted one, then a raw one
C1_Witness ==
    /\ pc = "loop" /\ idx = 3
    /\ items[1] = <<"cam0", Extrinsics("cTv", Rotated)>>
    /\ items[2] = <<"front_cam0", Extrinsics("vTc_front", Rotated)>>
    /\ DOMAIN xyzrpy = {"vTc_cam0", "vTc_front_front_cam0"}

\* the input of the end-to-end example, and the same matrix under "cTv"
Cam0File == << <<"cam0", Extrinsics("vTc", PureTranslation)>> >>
Cam0FileCTv == << <<"cam0", Extrinsics("cTv", PureTranslation)>> >>
ReportOf(a) == a["Audi Q8"]

\* C2 as stated: the example input {"cam0": {"extrinsics": {"vTc": M}}} with
\* M the translation by (1, 2, 3) yields the record "vTc_cam0" with the
\* inverted translation (-1, -2, -3) and zero angles.
C2_Original ==
    pc = "done" /\ file = Cam0File =>
        /\ "vTc_cam0" \in DOMAIN ReportOf(artifact)
        /\ ReportOf(artifact)["vTc_cam0"] =
              Pose(Frac(-1, 1), Frac(-2, 1), Frac(-3, 1), Zero, Zero, Zero)

\* C2 amended: the example input yields the single record "vTc_cam0" with the
\* translation as given, (1, 2, 3), and zero angles; the inverted translation
\* (-1, -2, -3) is what the same matrix yields under the label "cTv".
C2_Amended ==
    /\ pc = "done" /\ file = Cam0File =>
        /\ DOMAIN ReportOf(artifact) = {"vTc_cam0"}
        /\ ReportOf(artifact)["vTc_cam0"] =
              Pose(Frac(1, 1), Frac(2, 1), Frac(3, 1), Zero, Zero, Zero)
    /\ pc = "done" /\ file = Cam0FileCTv =>
        /\ DOMAIN ReportOf(artifact) = {"vTc_cam0"}
        /\ ReportOf(artifact)["vTc_cam0"] =
              Pose(Frac(-1, 1), Frac(-2, 1), Frac(-3, 1), Zero, Zero, Zero)

C2_Witness == pc = "done" /\ file = Cam0File /\ DOMAIN artifact = {"Audi Q8"}

\* a valid sensor entry carrying exactly one of the two fixed labels
ValidTwoLabel(v) ==
    /\ "extrinsics" \in DOMAIN v
    /\ Len(v.extrinsics) = 1
    /\ v.extrinsics[1][1] \in {"cTv", "vTc"}
    /\ Is4x4(v.extrinsics[1][2])
SensorsOf(f) == KeysOf(f) \ {"state"}
LoopLeft == pc \in {"open_out", "dump", "print", "done"}

\* C3: the key "state" never contributes a record and its value is never
\* read (it holds no 'extrinsics', so reading it would raise): no run ends on
\* the "state" entry and there are never more records than sensor entries
\* passed; and when every other entry is valid with label "cTv" or "vTc", the
\* finished loop leaves exactly one record per sensor key, "vTc_<key>".
C3_ReservedKey ==
    /\ pc = "raised" => items[idx][1] # "state"
    /\ Cardinality(DOMAIN xyzrpy)
          <= Cardinality({ i \in 1..(idx - 1) : items[i][1] # "state" })
    /\ LoopLeft /\ (\A i \in 1..Len(items) :
                        items[i][1] # "state" => ValidTwoLabel(items[i][2])) =>
          /\ DOMAIN xyzrpy = { "vTc_" \o k : k \in SensorsOf(items) }
          /\ Cardinality(DOMAIN xyzrpy) = Cardinality(SensorsOf(items))

\* "state" between two valid sensors: two records
C3_Witness ==
    /\ pc = "done"
    /\ Len(items) = 3 /\ items[2][1] = "state"
    /\ \A i \in {1, 3} : ValidTwoLabel(items[i][2])
    /\ Cardinality(DOMAIN ReportOf(artifact)) = 2

\* C7: a run that an entry ends with an exception has closed the input, never
\* opened the output and left the artifact as it was; and the artifact differs
\* from its prior content only in runs without exception whose loop is over.
C7_FailFast ==
    /\ pc = "raised" =>
          /\ exc \in {"KeyError", "IndexError", "ValueError"}
          /\ artifact = prior /\ ~outOpen /\ ~inOpen
    /\ exc # "" => pc = "raised"
    /\ artifact # prior => exc = "" /\ idx > Len(items)

\* a failure after an earlier entry was stored
C7_Witness ==
    /\ pc = "raised" /\ idx = 2 /\ exc = "KeyError"
    /\ Cardinality(DOMAIN xyzrpy) = 1
    /\ artifact = OldReport

\* the record name line 135 gives an entry, read off the input
NameOf(e) ==
    IF e[2].extrinsics[1][1] = "cTv" THEN "vTc_" \o e[1]
    ELSE e[2].extrinsics[1][1] \o "_" \o e[1]

\* C8: a run that completes leaves in the artifact exactly {"Audi Q8": xyzrpy}:
\* one top-level key, under it the records of the input's sensor entries, each
\* with exactly the six pose fields, and nothing of the prior report.
C8_Report ==
    pc = "done" =>
        /\ DOMAIN artifact = {"Audi Q8"}
        /\ ReportOf(artifact) = xyzrpy
        /\ DOMAIN ReportOf(artifact) =
              { NameOf(file[i]) : i \in { i \in 1..Len(file) : file[i][1] # "state" } }
        /\ \A n \in DOMAIN ReportOf(artifact) : DOMAIN ReportOf(artifact)[n] = PoseFields
        /\ \A n \in DOMAIN ReportOf(prior) : n \notin DOMAIN ReportOf(artifact)

C8_Witness ==
    /\ pc = "done"
    /\ prior = OldReport
    /\ Cardinality(DOMAIN ReportOf(artifact)) = 2

\* C10 as stated: the input file is closed before the first entry is
\* processed and is never open during the loop; the output file is opened
\* only after the last entry; the two are never open together.
C10_Original ==
    /\ pc = "loop" /\ idx <= Len(items) => ~inOpen
    /\ outOpen => idx > Len(items)
    /\ ~(inOpen /\ outOpen)

\* C10 amended: the input file is opened and fully read before the first
\* entry is processed, stays open while the entries are processed and is
\* closed when the loop is left (after the last entry, or by the exception of
\* a failing one); the output file is opened only after that, so only after
\* the last entry; the two are never open together.
C10_Amended ==
    /\ pc = "loop" => inOpen /\ items = file
    /\ (LoopLeft \/ pc = "raised") => ~inOpen
    /\ outOpen => ~inOpen /\ idx > Len(items) /\ exc = ""
    /\ ~(inOpen /\ outOpen)

\* the second entry about to be processed, the input file still open
C10_Witness ==
    /\ pc = "loop" /\ idx = 2 /\ Len(items) >= 2 /\ inOpen
    /\ Cardinality(DOMAIN xyzrpy) = 1

----------------------------------------------------------------------------
(* Claims about the pure functions, checked under FnSpec *)

\* C4: for every rigid transform T drawn (rotation block orthonormal with
\* determinant +1, fractions or integers, any translation), invert_T(T) @ T
\* is the 4 x 4 identity and invert_T(invert_T(T)) is T, exactly.
C4_InverseRoundTrip ==
    /\ fn = "invert_T" =>
          /\ out.ok
          /\ \A T \in {ArgT(arg)} : \A X \in {out.val} : MatMul(X, T) = eye(4)
    /\ fn = "invert_T.invert_T" => out.ok /\ out.val = ArgT(arg)

\* a transform with a non-symmetric rotation block and a translation
C4_Witness ==
    /\ fn = "invert_T.invert_T"
    /\ arg.roll = <<1, 0>> /\ arg.pitch = <<0, 1>> /\ arg.yaw = <<3, 4>>
    /\ arg.t = Int3(1, -1, 0)
    /\ out.val = ArgT(arg)

\* |pitch| < 89 degrees, among the angles drawn
RegularPitch(a) == a[2] > 0

\* C5 as stated: for R = Rz(yaw) Ry(pitch) Rx(roll) with |pitch| < 89 degrees,
\* rpy_from_R(R) returns (roll, pitch, yaw).
C5_RoundTrip ==
    fn = "rpy_from_R" /\ RegularPitch(arg.pitch) =>
        out.ok /\ out.val = <<arg.roll, arg.pitch, arg.yaw>>

\* the angle a - b
AngleDiff(a, b) ==
    arctan2(Frac(a[1] * b[2] - a[2] * b[1], 1), Frac(a[2] * b[2] + a[1] * b[1], 1))

\* C6: for R = Rz(yaw) Ry(+90 degrees) Rx(roll), cos_beta is not above the
\* threshold and rpy_from_R(R) returns yaw 0.0, pitch +90 degrees and as roll
\* the combined angle roll - yaw, which is arctan2(-R[1,2], R[0,2]).
C6_GimbalLock ==
    fn = "rpy_from_R" /\ arg.pitch = Deg90 =>
        \A R \in {ArgR(arg)} :
            /\ ~FGt(sqrt(FAdd(FMul(R[1][1], R[1][1]), FMul(R[2][1], R[2][1]))), Threshold)
            /\ out.ok
            /\ out.val = <<AngleDiff(arg.roll, arg.yaw), Deg90, Zero>>
            /\ out.val[1] = arctan2(FNeg(R[2][3]), R[1][3])

\* roll and yaw both off zero, their difference off the axes
C6_Witness ==
    /\ fn = "rpy_from_R"
    /\ arg.pitch = Deg90 /\ arg.roll = <<3, 4>> /\ arg.yaw = <<1, 0>>
    /\ out.val = << <<-4, 3>>, Deg90, Zero >>

\* C9: xyz_rpy_from_T of the 4 x 4 identity is the pose with all six fields
\* 0.0, the value get_empty_dict returns.
C9_Identity ==
    fn = "xyz_rpy_from_T" /\ ArgT(arg) = eye(4) =>
        /\ out.ok
        /\ out.val = Pose(<<0, 1>>, <<0, 1>>, <<0, 1>>, <<0, 1>>, <<0, 1>>, <<0, 1>>)
        /\ out.val = get_empty_dict

C9_Witness ==
    /\ fn = "xyz_rpy_from_T"
    /\ arg = NoArg
    /\ ArgT(arg) = eye(4)
    /\ out.ok

====
